---- MODULE Spec2Model ----
(***************************************************************************)
(* A model of cloudplaya/client.py: the criteria encoders, the payload     *)
(* navigator, the request dispatcher, the paginated search generator and   *)
(* the login scan of Client.authenticate.                                  *)
(*                                                                         *)
(* Python values are modelled as follows.  A dict is a TLA+ function from  *)
(* key strings to values; a JSON value of unknown shape is wrapped as      *)
(* Dict(f), Str(s) or List(l) so that the navigator can ask what it is;    *)
(* None is the string "None"; the outcome of a call is Return(v) or        *)
(* Raise(e), e an exception record.                                        *)
(***************************************************************************)
EXTENDS Integers, Sequences, FiniteSets, TLC

VARIABLES
    store,          \* the file .cloudplayarc: NoFile or the dict written by authenticate
    customer_id,    \* Client.customer_id
    adp_token,      \* Client.adp_token
    device_id,      \* Client.device_id
    device_type,    \* Client.device_type
    cookies,        \* Client.cookies
    authenticated,  \* Client.authenticated
    gen,            \* the generator objects of _search_library, one per search
    calls,          \* the requests.post calls made so far, in order
    lastGet,        \* the response and the outcome of the latest Client._get
    authIn,         \* what the login site does during one authenticate call
    authOut,        \* the outcome of that authenticate call
    navIn,          \* arguments of a _get_payload_data call
    navOut,         \* its outcome
    encIn,          \* arguments of a _build_* call
    encOut,         \* its outcome
    lists,          \* the list objects shared between calls: class attributes,
                    \* default arguments, the caller's list
    remote,         \* how the remote of the search answers: "any", "ends", "loops"
    reqIn,          \* the random draws of a _make_request_id call
    reqOut,         \* its outcome
    opOut,          \* the outcome of the latest get_track_list or direct _get
    seed            \* the state of the module random when the behaviour starts

client == <<customer_id, adp_token, device_id, device_type, cookies, authenticated>>
search == <<gen, calls, lastGet>>
auth   == <<authIn, authOut>>
nav    == <<navIn, navOut>>
enc    == <<encIn, encOut>>
req    == <<reqIn, reqOut>>
more   == <<lists, remote, req, opOut, seed>>
vars   == <<store, client, search, auth, nav, enc, more>>

(***************************************************************************)
(* Bounds of the model.                                                    *)
(***************************************************************************)
MaxCalls    == 3    \* requests.post calls in one behaviour
MaxItems    == 2    \* items on one page
MaxLines    == 5    \* lines of a login response body
MaxCriteria == 3    \* search criteria in one list
MaxSort     == 2    \* sort criteria in one list
MaxColumns  == 2    \* column names in one list
MaxSessionCalls == 2  \* requests.post calls in one behaviour of SpecSession

(***************************************************************************)
(* Python values.                                                          *)
(***************************************************************************)
None == "None"
Pending == [kind |-> "pending"]

Str(s)  == [t |-> "str",  s |-> s]
Dict(f) == [t |-> "dict", d |-> f]
List(l) == [t |-> "list", l |-> l]

EmptyDict == [k \in {} |-> ""]

\* d[k] = v
SetItem(d, k, v) == (k :> v) @@ d

\* d.update(e)
DictUpdate(d, e) == e @@ d

Return(v) == [kind |-> "return", value |-> v]
Raise(e)  == [kind |-> "raise", exc |-> e]

Exc(type, msg, code) == [type |-> type, msg |-> msg, code |-> code]

SeqsUpTo(S, n) == UNION {[1..m -> S] : m \in 0..n}

(***************************************************************************)
(* class RequestError(Exception): __init__(self, msg, code).  Calling the  *)
(* class with any other number of arguments raises TypeError instead of    *)
(* building the exception.                                                 *)
(***************************************************************************)
RequestError(args) ==
    IF Len(args) = 2
    THEN Exc("RequestError", args[1], args[2])
    ELSE Exc("TypeError", "__init__() takes exactly 3 arguments", None)

(***************************************************************************)
(* Criteria encoders.                                                      *)
(***************************************************************************)
\* '%s.member.%d' % (key_prefix, i + 1), i the 0-based index of enumerate
MemberKey(key_prefix, i) == key_prefix \o ".member." \o ToString(i + 1)

\* one iteration of the loop of _build_search_criteria
SearchCriteriaStepNoValue(data, i, item, key_prefix) ==
    LET key == MemberKey(key_prefix, i)
        d1  == SetItem(data, key \o ".attributeName", item[1])
        d2  == SetItem(d1, key \o ".comparisonType", item[2])
    IN  IF Len(item) = 2 THEN d2
        ELSE SetItem(d2, key \o ".attributeValue", item[3])

SearchCriteriaStep(data, i, item, key_prefix) ==
    LET key   == MemberKey(key_prefix, i)
        d1    == SetItem(data, key \o ".attributeName", item[1])
        d2    == SetItem(d1, key \o ".comparisonType", item[2])
        value == IF Len(item) = 2 THEN "" ELSE item[3]
    IN  SetItem(d2, key \o ".attributeValue", value)

RECURSIVE SearchCriteriaLoop(_, _, _, _)
SearchCriteriaLoop(data, i, items, key_prefix) ==
    IF i >= Len(items) THEN data
    ELSE SearchCriteriaLoop(SearchCriteriaStep(data, i, items[i + 1], key_prefix),
                            i + 1, items, key_prefix)

build_search_criteria(items, key_prefix) ==
    SearchCriteriaLoop(EmptyDict, 0, items, key_prefix)

\* one iteration of the loop of _build_selected_columns
SelectedColumnsStep(data, i, item) ==
    SetItem(data, "selectedColumns.member." \o ToString(i + 1), item)

RECURSIVE SelectedColumnsLoop(_, _, _)
SelectedColumnsLoop(data, i, columns) ==
    IF i >= Len(columns) THEN data
    ELSE SelectedColumnsLoop(SelectedColumnsStep(data, i, columns[i + 1]), i + 1, columns)

build_selected_columns(columns) == SelectedColumnsLoop(EmptyDict, 0, columns)

\* one iteration of the loop of _build_sort_criteria
SortCriteriaStepSwapped(data, i, item) ==
    LET key == MemberKey("sortCriteriaList", i)
    IN  SetItem(SetItem(data, key \o ".sortColumn", item[2]), key \o ".sortType", item[1])

SortCriteriaStep(data, i, item) ==
    LET key == MemberKey("sortCriteriaList", i)
    IN  SetItem(SetItem(data, key \o ".sortColumn", item[1]), key \o ".sortType", item[2])

RECURSIVE SortCriteriaLoop(_, _, _)
SortCriteriaLoop(data, i, sort) ==
    IF i >= Len(sort) THEN data
    ELSE SortCriteriaLoop(SortCriteriaStep(data, i, sort[i + 1]), i + 1, sort)

build_sort_criteria(sort) == SortCriteriaLoop(EmptyDict, 0, sort)

(***************************************************************************)
(* Payload navigator.                                                      *)
(***************************************************************************)
\* key in data.  The strings of the model are single characters or contain
\* no key, so that Python's substring test on a str is equality here.
Contains(data, key) ==
    CASE data.t = "dict" -> key \in DOMAIN data.d
      [] data.t = "str"  -> data.s = key
      [] data.t = "list" -> \E i \in DOMAIN data.l : data.l[i] = key

\* data[key], for a key that Contains(data, key)
GetItem(data, key) ==
    IF data.t = "dict" THEN Return(data.d[key])
    ELSE Raise(Exc("TypeError", "indices must be integers", None))

MissingKeyMsg(key) == "Missing key \"" \o key \o "\" in response data"

RECURSIVE get_payload_data(_, _)
get_payload_data(data, keys) ==
    IF keys = <<>> THEN Return(data)
    ELSE LET key == Head(keys)
         IN  IF ~Contains(data, key)
             THEN Raise(RequestError(<<MissingKeyMsg(key)>>))
             ELSE LET r == GetItem(data, key)
                  IN  IF r.kind = "raise" THEN r
                      ELSE get_payload_data(r.value, Tail(keys))

(***************************************************************************)
(* Class constants of Client, and the column lists of the record classes.  *)
(***************************************************************************)
PAGINATE_BY == 50

USER_AGENT == "Mozilla/5.0 (X11; Linux x86_64) AppleWebKit/535.19 (KHTML, like Gecko) Chrome/18.0.1025.142 Safari/535.19"
REFERER    == "https://www.amazon.com/gp/dmusic/mp3/player?ie=UTF8&ref_=gno_yam_cldplyr&"
ORIGIN     == "https://www.amazon.com"

DEFAULT_SONG_SORT   == <<(<<"sortTitle", "ASC">>)>>
SONG_SEARCH         == <<(<<"keywords", "LIKE", "">>), (<<"assetType", "EQUALS", "AUDIO">>),
                         (<<"status", "EQUALS", "AVAILABLE">>)>>
DEFAULT_ARTIST_SORT == <<(<<"sortArtistName", "ASC">>)>>
ARTIST_SEARCH       == <<(<<"status", "EQUALS", "AVAILABLE">>), (<<"trackStatus", "IS_NULL">>)>>
DEFAULT_ALBUM_SORT  == <<(<<"sortAlbumName", "ASC">>)>>
ALBUM_SEARCH        == <<(<<"status", "EQUALS", "AVAILABLE">>)>>

\* The list objects that outlive one call: the class attributes above, the
\* default value [] of the parameter search of get_songs, get_albums and
\* get_artists (one object per function, made when the function is defined)
\* and a list the caller owns and passes as search.
CALLER_SEARCH == <<(<<"artistName", "EQUALS", "Low">>)>>

ListNames ==
    {"Client.SONG_SEARCH", "Client.ALBUM_SEARCH", "Client.ARTIST_SEARCH",
     "Client.DEFAULT_SONG_SORT", "Client.DEFAULT_ALBUM_SORT", "Client.DEFAULT_ARTIST_SORT",
     "get_songs.search", "get_albums.search", "get_artists.search", "caller.search"}

ClassLists ==
    [x \in ListNames |->
        CASE x = "Client.SONG_SEARCH" -> SONG_SEARCH
          [] x = "Client.ALBUM_SEARCH" -> ALBUM_SEARCH
          [] x = "Client.ARTIST_SEARCH" -> ARTIST_SEARCH
          [] x = "Client.DEFAULT_SONG_SORT" -> DEFAULT_SONG_SORT
          [] x = "Client.DEFAULT_ALBUM_SORT" -> DEFAULT_ALBUM_SORT
          [] x = "Client.DEFAULT_ARTIST_SORT" -> DEFAULT_ARTIST_SORT
          [] x = "caller.search" -> CALLER_SEARCH
          [] OTHER -> <<>>]

\* what evaluating "left + right" leaves in the heap: list.__add__ builds a
\* new list and writes to neither operand
AfterConcatInPlace(heap, left, right) == [heap EXCEPT ![left] = heap[left] \o heap[right]]

AfterConcat(heap, left, right) == heap

\* Song.COLUMNS, Album.COLUMNS, Artist.COLUMNS: lists of column names
SongColumns   == <<"title", "albumName">>
AlbumColumns  == <<"albumName">>
ArtistColumns == <<"artistName">>

(***************************************************************************)
(* Client.__init__ and Client._load_config.  The credential file holds the *)
(* dict authenticate dumped; json.dumps and json.loads map None to null    *)
(* and back and keep strings.                                              *)
(***************************************************************************)
FileWith(config) == [exists |-> TRUE, config |-> config]

Fields(cid, tok, did, dtype, ck, authd) ==
    [customer_id |-> cid, adp_token |-> tok, device_id |-> did, device_type |-> dtype,
     cookies |-> ck, authenticated |-> authd]

CurrentFields ==
    Fields(customer_id, adp_token, device_id, device_type, cookies, authenticated)

\* _load_config on an instance whose fields are cur
load_config(file, cur) ==
    IF ~file.exists
    THEN [cur EXCEPT !.authenticated = FALSE]
    ELSE Fields(file.config["customer_id"], file.config["adp_token"],
                file.config["device_id"], file.config["device_type"],
                file.config["cookies"], TRUE)

\* Client(): lines 58-66
NewClient(file) == load_config(file, Fields(None, None, None, None, None, FALSE))

SetFields(f) ==
    /\ customer_id' = f.customer_id
    /\ adp_token' = f.adp_token
    /\ device_id' = f.device_id
    /\ device_type' = f.device_type
    /\ cookies' = f.cookies
    /\ authenticated' = f.authenticated

(***************************************************************************)
(* Client._make_request_id.  A str is modelled as the sequence of its      *)
(* characters where the code slices one.  get_rand is applied to           *)
(* n = int(math.floor((1 + random.random()) * 65536)).                     *)
(***************************************************************************)
HexChars == <<"0", "1", "2", "3", "4", "5", "6", "7", "8", "9", "a", "b", "c", "d", "e", "f">>

\* the digits of hex(n), n >= 0
RECURSIVE HexDigits(_)
HexDigits(n) ==
    IF n < 16 THEN <<HexChars[n + 1]>>
    ELSE Append(HexDigits(n \div 16), HexChars[(n % 16) + 1])

\* hex(n)
hex(n) == <<"0", "x">> \o HexDigits(n)

\* s[k:]
SliceFrom(s, k) == SubSeq(s, k + 1, Len(s))

\* get_rand(), n the integer the random draw gives
get_randKeepLead(n) == SliceFrom(hex(n), 2)

get_rand(n) == SliceFrom(hex(n), 3)

\* '%s%s-%s-dmcp-%s-%s%s%s' % (get_rand(), ... , get_rand())
make_request_id(r) ==
    get_rand(r[1]) \o get_rand(r[2]) \o <<"-">> \o get_rand(r[3])
        \o <<"-", "d", "m", "c", "p", "-">> \o get_rand(r[4]) \o <<"-">>
        \o get_rand(r[5]) \o get_rand(r[6]) \o get_rand(r[7])

(***************************************************************************)
(* Request dispatcher: Client._get.  post is what requests.post does:      *)
(* Return(r), r a response with status_code and json, or Raise(e) when     *)
(* the transport fails.                                                    *)
(***************************************************************************)
KeyError(key) == Exc("KeyError", key, None)

\* obj[key] on a parsed JSON value
Subscript(obj, key) ==
    IF obj.t = "dict"
    THEN IF key \in DOMAIN obj.d THEN Return(obj.d[key]) ELSE Raise(KeyError(key))
    ELSE Raise(Exc("TypeError", "indices must be integers", None))

\* the keys _get merges into the request body
GetIdentity(operation, cid, did, dtype) ==
    [x \in {"Operation", "ContentType", "customerInfo.customerId",
            "customerInfo.deviceId", "customerInfo.deviceType"} |->
        CASE x = "Operation" -> operation
          [] x = "ContentType" -> "JSON"
          [] x = "customerInfo.customerId" -> cid
          [] x = "customerInfo.deviceId" -> did
          [] x = "customerInfo.deviceType" -> dtype]

\* lines 302-307: the classification of a response
ClassifyAnyStatus(r) ==
    LET error == Subscript(r.json, "Error")
    IN  IF error.kind = "return"
        THEN LET message == Subscript(error.value, "Message")
                 code    == Subscript(error.value, "Code")
             IN  IF message.kind = "raise" THEN message
                 ELSE IF code.kind = "raise" THEN code
                 ELSE Raise(RequestError(<<message.value.s, code.value.s>>))
        ELSE Return(r.json)

Classify(r) ==
    IF r.status_code # 200
    THEN LET error == Subscript(r.json, "Error")
         IN  IF error.kind = "raise" THEN error
             ELSE LET message == Subscript(error.value, "Message")
                      code    == Subscript(error.value, "Code")
                  IN  IF message.kind = "raise" THEN message
                      ELSE IF code.kind = "raise" THEN code
                      ELSE Raise(RequestError(<<message.value.s, code.value.s>>))
    ELSE Return(r.json)

\* lines 280-289: the headers of a call; rid is the request id
GetHeaders(rid, tok, ck) ==
    [x \in {"x-amzn-RequestId", "x-adp-token", "x-RequestedWith", "User-Agent",
            "Referer", "Origin", "Cookie", "Host"} |->
        CASE x = "x-amzn-RequestId" -> rid
          [] x = "x-adp-token" -> tok
          [] x = "x-RequestedWith" -> "XMLHttpRequest"
          [] x = "User-Agent" -> USER_AGENT
          [] x = "Referer" -> REFERER
          [] x = "Origin" -> ORIGIN
          [] x = "Cookie" -> ck
          [] x = "Host" -> "www.amazon.com"]

GetCallerWins(self, operation, data, post, draws) ==
    [headers |-> GetHeaders(make_request_id(draws), self.adp_token, self.cookies),
     data    |-> DictUpdate(GetIdentity(operation, self.customer_id,
                                        self.device_id, self.device_type), data),
     outcome |-> IF post.kind = "raise" THEN post ELSE Classify(post.value)]

\* Client._get(operation, data) on the instance self, against a remote that
\* answers with post; draws are the random draws of the request id.  headers
\* and data are what requests.post is called with.
Get(self, operation, data, post, draws) ==
    [headers |-> GetHeaders(make_request_id(draws), self.adp_token, self.cookies),
     data    |-> DictUpdate(data, GetIdentity(operation, self.customer_id,
                                              self.device_id, self.device_type)),
     outcome |-> IF post.kind = "raise" THEN post ELSE Classify(post.value)]

(***************************************************************************)
(* Paginated search: the generator of Client._search_library, reached      *)
(* through get_songs, get_albums or get_artists.                           *)
(*                                                                         *)
(* pc is where the generator stands: "unused" (no search started),         *)
(* "created" (generator object made, body not entered), "fetching" (a      *)
(* pull is inside the while loop, about to call _get), "yielded"           *)
(* (suspended at the yield of items[pos]), "done" (returned), "raised" (an *)
(* exception left the generator), "closed" (dropped by the consumer).      *)
(* out is what the consumer has received.  calls logs every call of        *)
(* requests.post: the generator it was made for, the request body sent     *)
(* and what the remote did.                                                *)
(***************************************************************************)
Gens == {"g1", "g2"}

NoExc == Exc("", "", None)

NoCall == [method |-> "", search |-> "", sort |-> ""]

\* outer is the frame of get_songs, get_albums or get_artists: the method and
\* the list objects it was called with; sort is the list object passed on
GenUnused ==
    [pc |-> "unused", outer |-> NoCall, return_type |-> "", result_cls |-> "",
     search |-> <<>>, columns |-> <<>>, sort |-> "", next_results_token |-> "",
     search_results |-> Dict(EmptyDict), items |-> <<>>, pos |-> 0,
     out |-> <<>>, exc |-> NoExc]

\* self.SONG_SEARCH, self.ALBUM_SEARCH, self.ARTIST_SEARCH
SearchListOf(method) ==
    CASE method = "get_songs" -> "Client.SONG_SEARCH"
      [] method = "get_albums" -> "Client.ALBUM_SEARCH"
      [] method = "get_artists" -> "Client.ARTIST_SEARCH"

\* the default value of the parameter search
DefaultSearch(method) ==
    CASE method = "get_songs" -> "get_songs.search"
      [] method = "get_albums" -> "get_albums.search"
      [] method = "get_artists" -> "get_artists.search"

\* the default value of the parameter sort
DefaultSort(method) ==
    CASE method = "get_songs" -> "Client.DEFAULT_SONG_SORT"
      [] method = "get_albums" -> "Client.DEFAULT_ALBUM_SORT"
      [] method = "get_artists" -> "Client.DEFAULT_ARTIST_SORT"

\* the arguments get_songs / get_albums / get_artists pass to _search_library
\* when their body is entered, the lists of the heap being as heap says
SearchArgs(heap, outer) ==
    CASE outer.method = "get_songs" ->
            [return_type |-> "TRACKS", result_cls |-> "Song",
             search |-> heap["Client.SONG_SEARCH"] \o heap[outer.search],
             columns |-> SongColumns, sort |-> outer.sort]
      [] outer.method = "get_albums" ->
            [return_type |-> "ALBUMS", result_cls |-> "Album",
             search |-> heap["Client.ALBUM_SEARCH"] \o heap[outer.search],
             columns |-> AlbumColumns, sort |-> outer.sort]
      [] outer.method = "get_artists" ->
            [return_type |-> "ARTISTS", result_cls |-> "Artist",
             search |-> heap["Client.ARTIST_SEARCH"] \o heap[outer.search],
             columns |-> ArtistColumns, sort |-> outer.sort]

\* lines 249-259: the request body of one page, the lists being as heap says
SearchData(rec, heap) ==
    LET data == [x \in {"searchReturnType", "albumArtUrlsSizeList.member.1",
                        "sortCriteriaList", "maxResults", "nextResultsToken"} |->
                    CASE x = "searchReturnType" -> rec.return_type
                      [] x = "albumArtUrlsSizeList.member.1" -> "MEDIUM"
                      [] x = "sortCriteriaList" -> ""
                      [] x = "maxResults" -> ToString(PAGINATE_BY)
                      [] x = "nextResultsToken" -> rec.next_results_token]
        d1 == DictUpdate(data, build_search_criteria(rec.search, "searchCriteria"))
        d2 == DictUpdate(d1, build_selected_columns(rec.columns))
    IN  DictUpdate(d2, build_sort_criteria(heap[rec.sort]))

\* result_cls(self, item)
MakeResult(cls, item) == [cls |-> cls, item |-> item]

Raised(rec, e) == [rec EXCEPT !.pc = "raised", !.exc = e]

\* "if not next_results_token"
Falsy(tok) == tok.t = "str" /\ tok.s = ""

\* lines 274-277, then the top of the loop: after the last item of a page
EndOfPageKeepToken(rec) ==
    LET tok == Subscript(rec.search_results, "nextResultsToken")
    IN  IF tok.kind = "raise" THEN Raised(rec, tok.exc)
        ELSE IF Falsy(tok.value) THEN [rec EXCEPT !.pc = "done"]
        ELSE [rec EXCEPT !.pc = "fetching"]

EndOfPageInverted(rec) ==
    LET tok == Subscript(rec.search_results, "nextResultsToken")
    IN  IF tok.kind = "raise" THEN Raised(rec, tok.exc)
        ELSE IF ~Falsy(tok.value) THEN [rec EXCEPT !.pc = "done"]
        ELSE [rec EXCEPT !.pc = "fetching", !.next_results_token = tok.value.s]

EndOfPage(rec) ==
    LET tok == Subscript(rec.search_results, "nextResultsToken")
    IN  IF tok.kind = "raise" THEN Raised(rec, tok.exc)
        ELSE IF Falsy(tok.value) THEN [rec EXCEPT !.pc = "done"]
        ELSE [rec EXCEPT !.pc = "fetching", !.next_results_token = tok.value.s]

\* lines 271-272: the yield of items[pos]
YieldItem(rec, pos) ==
    [rec EXCEPT !.pc = "yielded", !.pos = pos,
                !.out = Append(rec.out, MakeResult(rec.result_cls, rec.items[pos]))]

\* lines 263-277 on the outcome of _get, up to the next suspension
AfterGetRetry(rec, outcome) ==
    IF outcome.kind = "raise" THEN [rec EXCEPT !.pc = "fetching"]
    ELSE LET search_results == get_payload_data(outcome.value,
                                   <<"searchLibraryResponse", "searchLibraryResult">>)
         IN  IF search_results.kind = "raise" THEN Raised(rec, search_results.exc)
             ELSE LET items == get_payload_data(search_results.value,
                                                <<"searchReturnItemList">>)
                  IN  IF items.kind = "raise" THEN Raised(rec, items.exc)
                      ELSE LET r == [rec EXCEPT !.search_results = search_results.value,
                                                !.items = items.value.l,
                                                !.pos = 0]
                           IN  IF r.items # <<>> THEN YieldItem(r, 1) ELSE EndOfPage(r)

AfterGetEmptyEnds(rec, outcome) ==
    IF outcome.kind = "raise" THEN Raised(rec, outcome.exc)
    ELSE LET search_results == get_payload_data(outcome.value,
                                   <<"searchLibraryResponse", "searchLibraryResult">>)
         IN  IF search_results.kind = "raise" THEN Raised(rec, search_results.exc)
             ELSE LET items == get_payload_data(search_results.value,
                                                <<"searchReturnItemList">>)
                  IN  IF items.kind = "raise" THEN Raised(rec, items.exc)
                      ELSE LET r == [rec EXCEPT !.search_results = search_results.value,
                                                !.items = items.value.l,
                                                !.pos = 0]
                           IN  IF r.items # <<>> THEN YieldItem(r, 1)
                               ELSE [r EXCEPT !.pc = "done"]

AfterGet(rec, outcome) ==
    IF outcome.kind = "raise" THEN Raised(rec, outcome.exc)
    ELSE LET search_results == get_payload_data(outcome.value,
                                   <<"searchLibraryResponse", "searchLibraryResult">>)
         IN  IF search_results.kind = "raise" THEN Raised(rec, search_results.exc)
             ELSE LET items == get_payload_data(search_results.value,
                                                <<"searchReturnItemList">>)
                  IN  IF items.kind = "raise" THEN Raised(rec, items.exc)
                      ELSE LET r == [rec EXCEPT !.search_results = search_results.value,
                                                !.items = items.value.l,
                                                !.pos = 0]
                           IN  IF r.items # <<>> THEN YieldItem(r, 1) ELSE EndOfPage(r)

(***************************************************************************)
(* The remote of the search: what requests.post can do on call number c.   *)
(* The items of a page are named by the call and their place on the page,  *)
(* and the non-empty token of a page by the call, so that no two pages     *)
(* share an item or a token.                                               *)
(***************************************************************************)
TokenOfCall(c) == "t" \o ToString(c)

PageItems(c, n) == [i \in 1..n |-> <<c, i>>]

Envelope(c, n, hasToken, token) ==
    LET items == [x \in {"searchReturnItemList"} |-> List(PageItems(c, n))]
    IN  Dict(IF hasToken THEN SetItem(items, "nextResultsToken", Str(token)) ELSE items)

Wrap(result) ==
    Dict([x \in {"searchLibraryResponse"} |->
             Dict([y \in {"searchLibraryResult"} |-> result])])

GoodBodies(c) ==
    {Wrap(Envelope(c, n, TRUE, t)) : n \in 0..MaxItems, t \in {TokenOfCall(c), ""}}
    \cup {Wrap(Envelope(c, n, FALSE, "")) : n \in 0..MaxItems}

BrokenBodies ==
    {Dict(EmptyDict),
     Dict([x \in {"searchLibraryResponse"} |-> Dict(EmptyDict)]),
     Wrap(Dict([x \in {"nextResultsToken"} |-> Str("t1")]))}

ErrorBodies ==
    {Dict([x \in {"Error"} |-> Dict([y \in {"Message", "Code"} |->
              IF y = "Message" THEN Str(m) ELSE Str(c)])]) :
        m \in {"denied", "throttled"}, c \in {"403", "503"}}
    \cup {Dict([x \in {"Error"} |-> Dict([y \in {"Message"} |-> Str("denied")])]),
          Dict([x \in {"message"} |-> Str("Internal Server Error")])}

Response(status, body) == [status_code |-> status, json |-> body]

PostOutcomes(c) ==
    {Return(Response(200, b)) : b \in GoodBodies(c) \cup BrokenBodies}
    \cup {Return(Response(s, b)) : s \in {403, 500}, b \in ErrorBodies}
    \cup {Return(Response(200, b)) : b \in {Dict([x \in {"Error"} |->
              Dict([y \in {"Message", "Code"} |-> Str("ignored")])])}}
    \cup {Raise(Exc("ConnectionError", "connection refused", None))}

\* a remote that answers every call with a page and ends the sequence
\* with the page of call last at the latest
EndingOutcomes(c, last) ==
    {Return(Response(200, Wrap(Envelope(c, n, TRUE, t)))) :
        n \in 0..MaxItems, t \in IF c >= last THEN {""} ELSE {TokenOfCall(c), ""}}

\* a remote that answers every call with a page and the same token
LoopingOutcomes(c) ==
    {Return(Response(200, Wrap(Envelope(c, n, TRUE, "same")))) : n \in 0..MaxItems}

\* a remote whose pages hold one item each
TerseOutcomes(c) ==
    {Return(Response(200, Wrap(Envelope(c, 1, TRUE, t)))) : t \in {TokenOfCall(c), ""}}

RemoteOutcomes(disposition, c) ==
    CASE disposition = "any" -> PostOutcomes(c)
      [] disposition = "ends" -> EndingOutcomes(c, MaxCalls)
      [] disposition = "loops" -> LoopingOutcomes(c)
      [] disposition = "terse" -> TerseOutcomes(c)

\* random is a pseudo-random generator: its draws are a function of the
\* state it was seeded with.  RandomDraw is the k-th value of
\* int(math.floor((1 + random.random()) * 65536)) of a behaviour, and
\* RequestDraws the seven draws of the request id of call c.
Seeds == {0, 40503}

RandomDraw(s, k) == 65536 + ((s + k * 4660) % 65536)

RequestDraws(s, c) == [i \in 1..7 |-> RandomDraw(s, 7 * (c - 1) + i)]

(***************************************************************************)
(* Operations of the consumer of a search and of the engine.               *)
(***************************************************************************)
\* the consumer calls get_songs, get_albums or get_artists with the list
\* objects search and sort: a generator is made, its body not yet entered
StartSearch(g, method, searchRef, sortRef) ==
    /\ gen[g].pc = "unused"
    /\ gen' = [gen EXCEPT ![g] =
                  [GenUnused EXCEPT !.pc = "created",
                                    !.outer = [method |-> method, search |-> searchRef,
                                               sort |-> sortRef]]]
    /\ UNCHANGED <<store, client, calls, lastGet, auth, nav, enc, more>>

\* the first pull enters the body of get_songs / get_albums / get_artists,
\* which evaluates the arguments and enters _search_library (lines 245-246)
EnterSearch(rec, heap) ==
    LET a == SearchArgs(heap, rec.outer)
    IN  [rec EXCEPT !.pc = "fetching", !.return_type = a.return_type,
                    !.result_cls = a.result_cls, !.search = a.search,
                    !.columns = a.columns, !.sort = a.sort,
                    !.next_results_token = ""]

\* whether the body of the generator may call _get now
MayFetchEager(rec) == rec.pc \in {"fetching", "yielded"}

MayFetch(rec) == rec.pc = "fetching"

\* the consumer asks for the next element: next(generator)
Pull(g) ==
    /\ gen[g].pc \in {"created", "yielded"}
    /\ IF gen[g].pc = "created"
       THEN /\ gen' = [gen EXCEPT ![g] = EnterSearch(gen[g], lists)]
            /\ lists' = AfterConcat(lists, SearchListOf(gen[g].outer.method),
                                    gen[g].outer.search)
       ELSE /\ gen' = [gen EXCEPT ![g] =
                          IF gen[g].pos < Len(gen[g].items)
                          THEN YieldItem(gen[g], gen[g].pos + 1)
                          ELSE EndOfPage(gen[g])]
            /\ UNCHANGED lists
    /\ UNCHANGED <<store, client, calls, lastGet, auth, nav, enc, remote, req, opOut, seed>>

\* one pass of the while loop inside a pull: the call and what follows it
FetchSharedToken(g) ==
    /\ MayFetch(gen[g])
    /\ Len(calls) < MaxCalls
    /\ \E post \in RemoteOutcomes(remote, Len(calls) + 1) :
          LET first == \A i \in 1..Len(calls) : calls[i].gen # g
              last  == CHOOSE i \in 1..Len(calls) :
                           /\ calls[i].gen \in Gens
                           /\ \A k \in (i + 1)..Len(calls) : calls[k].gen \notin Gens
              body  == calls[last].post.value.json
              kept  == IF first THEN ""
                       ELSE body.d["searchLibraryResponse"].d["searchLibraryResult"]
                                .d["nextResultsToken"].s
              draws == RequestDraws(seed, Len(calls) + 1)
              r == Get(CurrentFields, "searchLibrary",
                       SearchData([gen[g] EXCEPT !.next_results_token = kept], lists),
                       post, draws)
          IN  /\ calls' = Append(calls, [gen |-> g, post |-> post, headers |-> r.headers,
                                         data |-> r.data])
              /\ lastGet' = [post |-> post, outcome |-> r.outcome]
              /\ gen' = [gen EXCEPT ![g] = AfterGet(gen[g], r.outcome)]
    /\ UNCHANGED <<store, client, auth, nav, enc, more>>

Fetch(g) ==
    /\ MayFetch(gen[g])
    /\ Len(calls) < MaxCalls
    /\ \E post \in RemoteOutcomes(remote, Len(calls) + 1) :
          LET draws == RequestDraws(seed, Len(calls) + 1)
              r == Get(CurrentFields, "searchLibrary", SearchData(gen[g], lists), post, draws)
          IN  /\ calls' = Append(calls, [gen |-> g, post |-> post, headers |-> r.headers,
                                         data |-> r.data])
              /\ lastGet' = [post |-> post, outcome |-> r.outcome]
              /\ gen' = [gen EXCEPT ![g] = AfterGet(gen[g], lastGet'.outcome)]
    /\ UNCHANGED <<store, client, auth, nav, enc, more>>

\* the consumer drops the generator before its end
Close(g) ==
    /\ gen[g].pc \in {"created", "yielded"}
    /\ gen' = [gen EXCEPT ![g].pc = "closed"]
    /\ UNCHANGED <<store, client, calls, lastGet, auth, nav, enc, more>>

(***************************************************************************)
(* Client.get_track_list: one call of _get, then the payload navigator and *)
(* a list comprehension.  The numbers of the request body are written as   *)
(* requests sends them.                                                    *)
(***************************************************************************)
TRACK_LIST_SORT == <<(<<"discNum", "ASC">>), (<<"trackNum", "ASC">>)>>

\* lines 152-157: the search list get_track_list builds for an album
TrackListSearch(album) ==
    <<(<<"status", "EQUALS", "AVAILABLE">>), (<<"trackStatus", "IS_NULL">>),
      (<<"sortAlbumArtistName", "EQUALS", album.sort_album_artist_name>>),
      (<<"sortAlbumName", "EQUALS", album.sort_album_name>>)>>

\* lines 142-163
TrackListData(album) ==
    LET data == [x \in {"sortCriteriaList", "maxResults", "nextResultsToken",
                        "distinctOnly", "countOnly"} |->
                    CASE x = "sortCriteriaList" -> ""
                      [] x = "maxResults" -> ToString(album.num_tracks)
                      [] x = "nextResultsToken" -> ToString(0)
                      [] x = "distinctOnly" -> "false"
                      [] x = "countOnly" -> "false"]
        d1 == DictUpdate(data, build_search_criteria(TrackListSearch(album),
                                                     "selectCriteriaList"))
        d2 == DictUpdate(d1, build_selected_columns(SongColumns))
    IN  DictUpdate(d2, build_sort_criteria(TRACK_LIST_SORT))

\* lines 166-172 on the outcome of _get
TrackListResult(outcome) ==
    IF outcome.kind = "raise" THEN outcome
    ELSE LET items == get_payload_data(outcome.value,
                          <<"selectTrackMetadataResponse", "selectTrackMetadataResult",
                            "trackInfoList">>)
         IN  IF items.kind = "raise" THEN items
             ELSE Return([i \in DOMAIN items.value.l |->
                             MakeResult("Song", items.value.l[i])])

\* the value v under the keys of path, outermost first
RECURSIVE Nest(_, _)
Nest(path, v) ==
    IF path = <<>> THEN v ELSE Dict([x \in {Head(path)} |-> Nest(Tail(path), v)])

\* what the remote can do on call c of selectTrackMetadata
TrackOutcomes(disposition, c) ==
    {Return(Response(200, Nest(<<"selectTrackMetadataResponse", "selectTrackMetadataResult",
                                 "trackInfoList">>, List(PageItems(c, n))))) :
        n \in IF disposition = "terse" THEN {1} ELSE 0..MaxItems}
    \cup {Return(Response(200, Nest(<<"selectTrackMetadataResponse">>, Dict(EmptyDict)))),
          Return(Response(403, Nest(<<"Error">>,
              Dict([y \in {"Message", "Code"} |->
                       IF y = "Message" THEN Str("denied") ELSE Str("403")]))))}

GetTrackList(album) ==
    /\ Len(calls) < MaxCalls
    /\ \E post \in TrackOutcomes(remote, Len(calls) + 1) :
          LET draws == RequestDraws(seed, Len(calls) + 1)
              r == Get(CurrentFields, "selectTrackMetadata", TrackListData(album), post, draws)
          IN  /\ calls' = Append(calls, [gen |-> "get_track_list", post |-> post,
                                         headers |-> r.headers, data |-> r.data])
              /\ lastGet' = [post |-> post, outcome |-> r.outcome]
              /\ opOut' = TrackListResult(r.outcome)
    /\ UNCHANGED <<store, client, gen, auth, nav, enc, lists, remote, req, seed>>

\* another caller of the dispatcher: _get(operation, data)
DirectGet(operation, data) ==
    /\ Len(calls) < MaxCalls
    /\ \E post \in {Return(Response(200, Dict(EmptyDict)))} :
          LET draws == RequestDraws(seed, Len(calls) + 1)
              r == Get(CurrentFields, operation, data, post, draws)
          IN  /\ calls' = Append(calls, [gen |-> "_get", post |-> post,
                                         headers |-> r.headers, data |-> r.data])
              /\ lastGet' = [post |-> post, outcome |-> r.outcome]
              /\ opOut' = r.outcome
    /\ UNCHANGED <<store, client, gen, auth, nav, enc, lists, remote, req, seed>>

\* the program drops the instance and makes a new one: Client()
Construct ==
    /\ \A g \in Gens : gen[g].pc \notin {"created", "fetching", "yielded"}
    /\ SetFields(NewClient(store))
    /\ UNCHANGED <<store, search, auth, nav, enc, more>>

(***************************************************************************)
(* Client.authenticate.  A line of the response body, stripped, is         *)
(* modelled by what the scan looks at: whether it starts with              *)
(* 'amznMusic.', the name that follows, the number of whitespace           *)
(* characters between '=' and the opening quote, and the quoted text.      *)
(* A pattern is the name it wants and whether it takes any run of          *)
(* whitespace there ("any") or exactly one character ("one").              *)
(***************************************************************************)
Line(prefix, name, gap, value) ==
    [prefix |-> prefix, name |-> name, gap |-> gap, value |-> value]

CUSTOMER_ID_RE == [name |-> "customerId", gap |-> "any"]
ADP_TOKEN_RE   == [name |-> "tid",        gap |-> "one"]
DEVICE_ID_RE   == [name |-> "did",        gap |-> "any"]
DEVICE_TYPE_RE == [name |-> "dtid",       gap |-> "any"]

\* regex.match(line): whether it matches; group(1) is then line.value
Matches(regex, line) ==
    /\ line.prefix = "amznMusic."
    /\ line.name = regex.name
    /\ regex.gap = "one" => line.gap = 1

vars_mapSwapped ==
    <<(<<"customer_id", CUSTOMER_ID_RE>>), (<<"adp_token", ADP_TOKEN_RE>>),
      (<<"device_id", DEVICE_TYPE_RE>>), (<<"device_type", DEVICE_ID_RE>>)>>

vars_map == <<(<<"customer_id", CUSTOMER_ID_RE>>), (<<"adp_token", ADP_TOKEN_RE>>),
              (<<"device_id", DEVICE_ID_RE>>), (<<"device_type", DEVICE_TYPE_RE>>)>>

AuthVarKeys == {"customer_id", "adp_token", "device_id", "device_type"}

\* lines 114-120: the first pattern of vars_map that matches, 0 when none does
FirstMatch(line) ==
    IF \E k \in 1..Len(vars_map) : Matches(vars_map[k][2], line)
    THEN CHOOSE k \in 1..Len(vars_map) :
            /\ Matches(vars_map[k][2], line)
            /\ \A j \in 1..(k - 1) : ~Matches(vars_map[j][2], line)
    ELSE 0

\* lines 111-120: one line of the scan; st is [found, auth_vars]
ScanLine(st, line) ==
    IF line.prefix = "amznMusic." /\ FirstMatch(line) # 0
    THEN [found     |-> st.found + 1,
          auth_vars |-> [st.auth_vars EXCEPT ![vars_map[FirstMatch(line)][1]] = line.value]]
    ELSE st

\* lines 122-123: whether the scan stops after this line
ScanStops(st) == st.found = Cardinality(AuthVarKeys)

\* lines 110-123
RECURSIVE ScanLoop(_, _, _)
ScanLoop(st, lines, i) ==
    IF i > Len(lines) THEN st
    ELSE LET st2 == ScanLine(st, lines[i])
         IN  IF ScanStops(st2) THEN st2 ELSE ScanLoop(st2, lines, i + 1)

\* lines 94-123
Scan(lines) ==
    ScanLoop([found |-> 0, auth_vars |-> [k \in AuthVarKeys |-> None]], lines, 1)

\* '; '.join(['%s=%s' % (cookie.name, cookie.value) for cookie in cookiejar])
RECURSIVE JoinCookies(_)
JoinCookies(jar) ==
    IF jar = <<>> THEN ""
    ELSE IF Len(jar) = 1 THEN jar[1].name \o "=" \o jar[1].value
    ELSE jar[1].name \o "=" \o jar[1].value \o "; " \o JoinCookies(Tail(jar))

\* lines 125-126: whether the login is given up after the scan
ScanFailed(st) == st.found # Cardinality(AuthVarKeys)

authenticateWriteFirst(site) ==
    IF site.open # "ok"
    THEN [outcome |-> Raise(Exc(site.open, "browser.open", None)), wrote |-> FALSE]
    ELSE IF site.form # "ok"
    THEN [outcome |-> Raise(Exc(site.form, "browser.select_form", None)), wrote |-> FALSE]
    ELSE IF site.submit # "ok"
    THEN [outcome |-> Raise(Exc(site.submit, "browser.submit", None)), wrote |-> FALSE]
    ELSE LET st == Scan(site.content)
         IN  [outcome |-> Return(~ScanFailed(st)), wrote |-> TRUE,
              config  |-> [k \in AuthVarKeys \cup {"cookies"} |->
                              IF k = "cookies" THEN JoinCookies(site.cookiejar)
                              ELSE st.auth_vars[k]]]

\* Client.authenticate against a login site that behaves as site says:
\* the outcome, and the dict written to the credential file if any
authenticate(site) ==
    IF site.open # "ok"
    THEN [outcome |-> Raise(Exc(site.open, "browser.open", None)), wrote |-> FALSE]
    ELSE IF site.form # "ok"
    THEN [outcome |-> Raise(Exc(site.form, "browser.select_form", None)), wrote |-> FALSE]
    ELSE IF site.submit # "ok"
    THEN [outcome |-> Raise(Exc(site.submit, "browser.submit", None)), wrote |-> FALSE]
    ELSE LET st == Scan(site.content)
         IN  IF ScanFailed(st)
             THEN [outcome |-> Return(FALSE), wrote |-> FALSE]
             ELSE [outcome |-> Return(TRUE), wrote |-> TRUE,
                   config  |-> [k \in AuthVarKeys \cup {"cookies"} |->
                                   IF k = "cookies" THEN JoinCookies(site.cookiejar)
                                   ELSE st.auth_vars[k]]]

\* one call of authenticate on the client, the login site behaving as site
Authenticate(site) ==
    LET r == authenticate(site)
    IN  /\ authOut' = r.outcome
        /\ IF r.wrote
           THEN /\ store' = FileWith(r.config)
                /\ SetFields(load_config(FileWith(r.config), CurrentFields))
           ELSE UNCHANGED <<store, client>>
        /\ UNCHANGED <<search, nav, enc, more>>

(***************************************************************************)
(* Values every specification starts the parts it does not exercise with.  *)
(***************************************************************************)
NoFile == [exists |-> FALSE]

StoredConfig ==
    [k \in AuthVarKeys \cup {"cookies"} |->
        CASE k = "customer_id" -> "C0"
          [] k = "adp_token" -> "T0"
          [] k = "device_id" -> "D0"
          [] k = "device_type" -> "Y0"
          [] k = "cookies" -> "session-id=0"]

\* the client was made by Client() when the credential file was file
ClientInit(file) ==
    /\ store = file
    /\ customer_id = NewClient(file).customer_id
    /\ adp_token = NewClient(file).adp_token
    /\ device_id = NewClient(file).device_id
    /\ device_type = NewClient(file).device_type
    /\ cookies = NewClient(file).cookies
    /\ authenticated = NewClient(file).authenticated

SearchIdle == gen = [g \in Gens |-> GenUnused] /\ calls = <<>> /\ lastGet = Pending
ReqIdle == reqIn = Pending /\ reqOut = Pending
MoreIdle ==
    /\ lists = ClassLists
    /\ remote = "any"
    /\ ReqIdle
    /\ opOut = Pending
    /\ seed = 0
AuthIdle == authIn = Pending /\ authOut = Pending
NavIdle == navIn = Pending /\ navOut = Pending
EncIdle == encIn = Pending /\ encOut = Pending

(***************************************************************************)
(* SpecNav: _get_payload_data applied to bounded nested mappings.          *)
(***************************************************************************)
NavKeys == {"A", "B", "C"}

DictsOver(K, V) == {Dict(f) : f \in UNION {[S -> V] : S \in SUBSET K}}

NavLeaves == {Str("v")}
NavLevel1 == NavLeaves \cup DictsOver(NavKeys, NavLeaves)
NavLevel2 == DictsOver(NavKeys, NavLevel1)
NavLevel3 == {Dict([x \in {k} |-> v]) : k \in NavKeys, v \in NavLevel2}
NavData   == DictsOver(NavKeys, NavLeaves) \cup NavLevel2 \cup NavLevel3

NavPaths == {<<"A">>, <<"A", "B">>, <<"A", "B", "C">>, <<"B", "A">>, <<"C", "C">>, <<>>}

Navigate ==
    /\ navIn # Pending
    /\ navOut = Pending
    /\ navOut' = get_payload_data(navIn.data, navIn.keys)
    /\ UNCHANGED <<store, client, search, auth, navIn, enc, more>>

(***************************************************************************)
(* SpecEnc: the three encoders applied to bounded lists.                   *)
(***************************************************************************)
Criteria    == {<<"status", "EQUALS", "AVAILABLE">>, <<"trackStatus", "IS_NULL">>,
                <<"keywords", "LIKE", "">>}
Prefixes    == {"searchCriteria", "selectCriteriaList"}
SortItems   == {<<"sortTitle", "ASC">>, <<"discNum", "DESC">>}
ColumnNames == {"title", "albumName"}

EncNone == [search |-> Pending, columns |-> Pending, sort |-> Pending]

EncodeSearch ==
    /\ encIn # Pending
    /\ encOut.search = Pending
    /\ encOut' = [encOut EXCEPT !.search =
                     Return(build_search_criteria(encIn.search, encIn.key_prefix))]
    /\ UNCHANGED <<store, client, search, auth, nav, encIn, more>>

EncodeColumns ==
    /\ encIn # Pending
    /\ encOut.columns = Pending
    /\ encOut' = [encOut EXCEPT !.columns = Return(build_selected_columns(encIn.columns))]
    /\ UNCHANGED <<store, client, search, auth, nav, encIn, more>>

EncodeSort ==
    /\ encIn # Pending
    /\ encOut.sort = Pending
    /\ encOut' = [encOut EXCEPT !.sort = Return(build_sort_criteria(encIn.sort))]
    /\ UNCHANGED <<store, client, search, auth, nav, encIn, more>>

(***************************************************************************)
(* Spec: one client, one search pulled by its consumer against a remote    *)
(* that answers each call as it likes.                                     *)
(***************************************************************************)
Methods == {"get_songs", "get_albums", "get_artists"}

\* the list objects a caller passes as search: none (the default) or its own
SearchRefs(method) == {DefaultSearch(method), "caller.search"}

Init ==
    /\ \E file \in {NoFile, FileWith(StoredConfig)} : ClientInit(file)
    /\ SearchIdle
    /\ AuthIdle
    /\ NavIdle
    /\ EncIdle
    /\ lists = ClassLists
    /\ remote = "any"
    /\ ReqIdle
    /\ opOut = Pending
    /\ seed \in Seeds

Next ==
    \/ \E method \in Methods :
          \E searchRef \in SearchRefs(method) :
              StartSearch("g1", method, searchRef, DefaultSort(method))
    \/ Pull("g1")
    \/ Fetch("g1")
    \/ Close("g1")

Spec == Init /\ [][Next]_vars

(***************************************************************************)
(* SpecAuth: one authenticate call against a login site whose behaviour    *)
(* and response body are drawn from bounded sets.                          *)
(***************************************************************************)
BodyLines ==
    {Line("amznMusic.", "customerId", 0, "A"),
     Line("amznMusic.", "tid", 1, "T"), Line("amznMusic.", "tid", 0, "U"),
     Line("amznMusic.", "did", 1, "D"), Line("amznMusic.", "dtid", 1, "Y"),
     Line("amznMusic.", "foo", 1, "F"), Line("", "var x", 1, "X")}

CookieJars ==
    {<<[name |-> "session-id", value |-> "1"], [name |-> "ubid", value |-> "2"]>>}

Site(open, form, submit, content, cookiejar) ==
    [open |-> open, form |-> form, submit |-> submit, content |-> content,
     cookiejar |-> cookiejar]

\* the behaviours of the login site with a response body of n lines at most
AuthSites(n) ==
    {Site("URLError", "ok", "ok", <<>>, <<>>), Site("ok", "FormNotFoundError", "ok", <<>>, <<>>),
     Site("ok", "ok", "URLError", <<>>, <<>>)}
    \cup {Site("ok", "ok", "ok", content, jar) :
             content \in SeqsUpTo(BodyLines, n), jar \in CookieJars}

AuthInit ==
    /\ \E file \in {NoFile, FileWith(StoredConfig)} : ClientInit(file)
    /\ SearchIdle
    /\ authIn \in AuthSites(MaxLines)
    /\ authOut = Pending
    /\ NavIdle
    /\ EncIdle
    /\ MoreIdle

AuthenticateCall ==
    /\ authOut = Pending
    /\ Authenticate(authIn)
    /\ UNCHANGED authIn

AuthNext == AuthenticateCall

SpecAuth == AuthInit /\ [][AuthNext]_vars

(***************************************************************************)
(* SpecSession: one client over its life: logins that succeed or fail, a   *)
(* search pulled by its consumer, the other operations that call the       *)
(* remote, and new instances made from the credential file.                *)
(***************************************************************************)
GoodBody ==
    <<Line("amznMusic.", "customerId", 0, "A"), Line("amznMusic.", "tid", 1, "T"),
      Line("amznMusic.", "did", 1, "D"), Line("amznMusic.", "dtid", 1, "Y")>>

\* a body without the dtid assignment, and one that repeats tid in its place
ShortBody  == SubSeq(GoodBody, 1, 3)
RepeatBody == Append(ShortBody, Line("amznMusic.", "tid", 1, "T"))

SessionJar == <<[name |-> "session-id", value |-> "1"]>>

SessionSites ==
    {Site("ok", "ok", "ok", body, SessionJar) : body \in {GoodBody, ShortBody, RepeatBody}}
    \cup {Site("ok", "ok", "URLError", <<>>, <<>>)}

Albums ==
    {[num_tracks |-> 2, sort_album_artist_name |-> "low", sort_album_name |-> "trust"]}

\* request bodies of a direct caller, one of them naming the keys _get sets
DirectData ==
    {EmptyDict,
     [x \in {"Operation", "ContentType", "customerInfo.customerId",
             "customerInfo.deviceId", "customerInfo.deviceType", "q"} |-> "caller"]}

SessionInit ==
    /\ \E file \in {NoFile, FileWith(StoredConfig)} : ClientInit(file)
    /\ SearchIdle
    /\ AuthIdle
    /\ NavIdle
    /\ EncIdle
    /\ lists = ClassLists
    /\ remote = "terse"
    /\ ReqIdle
    /\ opOut = Pending
    /\ seed = 0

Login ==
    \E site \in SessionSites :
        /\ authIn' = site
        /\ Authenticate(site)

SessionNext ==
    \/ Login
    \/ StartSearch("g1", "get_songs", DefaultSearch("get_songs"), DefaultSort("get_songs"))
    \/ Pull("g1")
    \/ Len(calls) < MaxSessionCalls /\ Fetch("g1")
    \/ Close("g1")
    \/ Len(calls) < MaxSessionCalls /\ \E album \in Albums : GetTrackList(album)
    \/ Len(calls) < MaxSessionCalls /\ \E data \in DirectData : DirectGet("getStreamUrls", data)
    \/ Construct

SpecSession == SessionInit /\ [][SessionNext]_vars

(***************************************************************************)
(* SpecTwo: two searches on one client, pulled in any interleaving, and    *)
(* get_track_list calls between them.                                      *)
(***************************************************************************)
TwoInit ==
    /\ ClientInit(FileWith(StoredConfig))
    /\ SearchIdle
    /\ AuthIdle
    /\ NavIdle
    /\ EncIdle
    /\ lists = ClassLists
    /\ remote = "terse"
    /\ ReqIdle
    /\ opOut = Pending
    /\ seed = 0

TwoNext ==
    \/ \E method \in Methods :
          \E searchRef \in SearchRefs(method) :
              StartSearch("g1", method, searchRef, DefaultSort(method))
    \/ \E searchRef \in SearchRefs("get_songs") :
          StartSearch("g2", "get_songs", searchRef, DefaultSort("get_songs"))
    \/ \E g \in Gens : Pull(g)
    \/ \E g \in Gens : Fetch(g)
    \/ \E g \in Gens : Close(g)
    \/ \E album \in Albums : GetTrackList(album)

SpecTwo == TwoInit /\ [][TwoNext]_vars

(***************************************************************************)
(* SpecReq: _make_request_id applied to seven draws.  random.random() is a *)
(* double in [0, 1), so (1 + random.random()) * 65536 lies in              *)
(* [65536, 131072) except for the largest draw, 1 - 2^-53, where the sum   *)
(* rounds to 2.0 and the product is 131072.                                *)
(***************************************************************************)
RandValues == {65536, 65551, 74565, 131071, 131072}

ReqInit ==
    /\ ClientInit(NoFile)
    /\ SearchIdle
    /\ AuthIdle
    /\ NavIdle
    /\ EncIdle
    /\ lists = ClassLists
    /\ remote = "any"
    /\ reqIn \in [1..7 -> RandValues]
    /\ reqOut = Pending
    /\ opOut = Pending
    /\ seed = 0

MakeRequestId ==
    /\ reqIn # Pending
    /\ reqOut = Pending
    /\ reqOut' = Return(make_request_id(reqIn))
    /\ UNCHANGED <<store, client, search, auth, nav, enc, lists, remote, reqIn, opOut, seed>>

ReqNext == MakeRequestId

SpecReq == ReqInit /\ [][ReqNext]_vars

(***************************************************************************)
(* SpecLive: one search whose consumer keeps pulling, against a remote     *)
(* that answers every call with a page and either ends the sequence at     *)
(* some page or returns the same token for ever.  The consumer never       *)
(* stops asking and a pull runs until it yields, returns or raises, so     *)
(* some step is taken whenever one is possible.                            *)
(***************************************************************************)
LiveInit ==
    /\ ClientInit(FileWith(StoredConfig))
    /\ SearchIdle
    /\ AuthIdle
    /\ NavIdle
    /\ EncIdle
    /\ lists = ClassLists
    /\ remote \in {"ends", "loops"}
    /\ ReqIdle
    /\ opOut = Pending
    /\ seed = 0

LiveNext ==
    \/ \E method \in Methods :
          \E searchRef \in SearchRefs(method) :
              StartSearch("g1", method, searchRef, DefaultSort(method))
    \/ Pull("g1")
    \/ Fetch("g1")

SpecLive == LiveInit /\ [][LiveNext]_vars /\ WF_vars(LiveNext)

(***************************************************************************)
(* SpecNav and SpecEnc.                                                    *)
(***************************************************************************)
NavInit ==
    /\ ClientInit(NoFile)
    /\ SearchIdle
    /\ AuthIdle
    /\ navIn \in [data : NavData, keys : NavPaths]
    /\ navOut = Pending
    /\ EncIdle
    /\ MoreIdle

NavNext == Navigate

SpecNav == NavInit /\ [][NavNext]_vars

EncInit ==
    /\ ClientInit(NoFile)
    /\ SearchIdle
    /\ AuthIdle
    /\ NavIdle
    /\ encIn \in [search : SeqsUpTo(Criteria, MaxCriteria), key_prefix : Prefixes,
                  columns : SeqsUpTo(ColumnNames, MaxColumns),
                  sort : SeqsUpTo(SortItems, MaxSort)]
    /\ encOut = EncNone
    /\ MoreIdle

EncNext == EncodeSearch \/ EncodeColumns \/ EncodeSort

SpecEnc == EncInit /\ [][EncNext]_vars

(***************************************************************************)
(* Properties of the paginated search (Spec).                              *)
(***************************************************************************)
CallsOf(g) == SelectSeq(calls, LAMBDA c : c.gen = g)

SentToken(c) == c.data["nextResultsToken"]

\* the remote answered call c with a page: status 200 and a result envelope
\* that holds an item list
IsPage(c) ==
    /\ c.post.kind = "return"
    /\ c.post.value.status_code = 200
    /\ "searchLibraryResponse" \in DOMAIN c.post.value.json.d
    /\ "searchLibraryResult" \in DOMAIN c.post.value.json.d["searchLibraryResponse"].d
    /\ "searchReturnItemList" \in
          DOMAIN c.post.value.json.d["searchLibraryResponse"].d["searchLibraryResult"].d

PageEnvelope(c) == c.post.value.json.d["searchLibraryResponse"].d["searchLibraryResult"].d

ItemsOfPage(c) == PageEnvelope(c)["searchReturnItemList"].l

HasToken(c) == "nextResultsToken" \in DOMAIN PageEnvelope(c)

TokenOfPage(c) == PageEnvelope(c)["nextResultsToken"].s

\* the records made of the items of the pages cs, page after page
RECURSIVE Concatenation(_, _)
Concatenation(cs, cls) ==
    IF cs = <<>> THEN <<>>
    ELSE [i \in 1..Len(ItemsOfPage(cs[1])) |-> [cls |-> cls, item |-> ItemsOfPage(cs[1])[i]]]
         \o Concatenation(Tail(cs), cls)

IsPrefix(s, t) == Len(s) <= Len(t) /\ \A i \in 1..Len(s) : s[i] = t[i]

\* every call made for g so far was answered with a page
AllPages(g) == \A j \in 1..Len(CallsOf(g)) : IsPage(CallsOf(g)[j])

\* call 1 carries the empty token and call j the token of page j-1
C1_TokensChain ==
    \A g \in Gens :
        LET cs == CallsOf(g)
        IN  \A j \in 1..Len(cs) :
                IF j = 1 THEN SentToken(cs[j]) = ""
                ELSE /\ IsPage(cs[j - 1])
                     /\ HasToken(cs[j - 1])
                     /\ TokenOfPage(cs[j - 1]) # ""
                     /\ SentToken(cs[j]) = TokenOfPage(cs[j - 1])

\* what the consumer has seen is a prefix of the pages' items in page order,
\* and all of them once the sequence has ended
C1_ItemsInOrder ==
    \A g \in Gens :
        LET cs == CallsOf(g)
        IN  /\ AllPages(g) => IsPrefix(gen[g].out, Concatenation(cs, gen[g].result_cls))
            /\ gen[g].pc = "done" =>
                  /\ Len(cs) >= 1
                  /\ AllPages(g)
                  /\ HasToken(cs[Len(cs)]) /\ TokenOfPage(cs[Len(cs)]) = ""
                  /\ gen[g].out = Concatenation(cs, gen[g].result_cls)

\* a remote that answers k pages with tokens t1 .. t(k-1) non-empty and tk
\* empty never makes the search fail
C1_ScriptedRemoteNoError ==
    \A g \in Gens :
        LET cs == CallsOf(g)
        IN  (/\ Len(cs) >= 1
             /\ AllPages(g)
             /\ \A j \in 1..Len(cs) : HasToken(cs[j])) => gen[g].pc # "raised"

\* C1: against a remote that answers k pages, the tokens of the first k-1
\* non-empty and the k-th empty, a consumer that pulls the search to its end
\* has seen exactly the items of the k pages in page order and in the order
\* of each page, and exactly k calls were made: the first with the empty
\* token, call j with the token page j-1 returned, and none after the page
\* with the empty token.
C1_PaginatedSearch ==
    /\ [](C1_TokensChain /\ C1_ItemsInOrder /\ C1_ScriptedRemoteNoError)
    /\ [][\A g \in Gens : gen[g].pc = "done" => (calls' = calls /\ gen'[g] = gen[g])]_vars

\* three pages with tokens "t1", "t2", "" pulled to the end
C1_Witness ==
    /\ gen["g1"].pc = "done"
    /\ Len(calls) = 3
    /\ TokenOfPage(calls[1]) = "t1" /\ TokenOfPage(calls[2]) = "t2"
    /\ Len(ItemsOfPage(calls[1])) = 2 /\ Len(ItemsOfPage(calls[3])) = 1
    /\ Len(gen["g1"].out) >= 4

\* C2: when the result envelope of a page has an empty continuation token or
\* no continuation-token field, the search ends normally once the items of
\* the page are produced, with no further call and no error; when the token
\* is non-empty the engine goes on fetching.
C2_EmptyOrAbsentTokenEnds ==
    \A g \in Gens :
        LET cs == CallsOf(g)
        IN  (/\ Len(cs) >= 1
             /\ IsPage(cs[Len(cs)])
             /\ gen[g].pc \notin {"yielded", "closed"})
            => IF HasToken(cs[Len(cs)]) /\ TokenOfPage(cs[Len(cs)]) # ""
               THEN gen[g].pc = "fetching"
               ELSE gen[g].pc = "done" /\ gen[g].exc = NoExc

\* the pages of g whose items the consumer has all received
PagesConsumed(g) ==
    {j \in 1..Len(CallsOf(g)) :
        /\ IsPage(CallsOf(g)[j])
        /\ \A i \in DOMAIN ItemsOfPage(CallsOf(g)[j]) :
              \E n \in DOMAIN gen[g].out : gen[g].out[n].item = ItemsOfPage(CallsOf(g)[j])[i]}

C3_AtMostOneAhead ==
    \A g \in Gens : Len(CallsOf(g)) <= 1 + Cardinality(PagesConsumed(g))

\* a call is made only inside a pull, when every page before it is consumed
C3_CallOnlyOnDemand ==
    \A g \in Gens :
        Len(CallsOf(g))' > Len(CallsOf(g)) =>
            /\ gen[g].pc = "fetching"
            /\ Cardinality(PagesConsumed(g)) = Len(CallsOf(g))
            /\ Len(CallsOf(g))' = Len(CallsOf(g)) + 1

C3_NoCallOnceAbandoned ==
    \A g \in Gens : gen[g].pc = "closed" => (CallsOf(g)' = CallsOf(g) /\ gen'[g] = gen[g])

\* C3: the search is pull-driven: the call for page j+1 is made only after
\* the consumer has pulled every item of page j and asks for one more, so the
\* calls made are at most one more than the pages consumed, and a consumer
\* that abandons the sequence causes no further call.
C3_PullDriven ==
    /\ []C3_AtMostOneAhead
    /\ [][C3_CallOnlyOnDemand /\ C3_NoCallOnceAbandoned]_vars

\* the second call was made after the two items of page 1 were pulled, and
\* the consumer then abandoned the search although the remote offers more
C3_Witness ==
    /\ gen["g1"].pc = "closed"
    /\ Len(calls) = 2
    /\ IsPage(calls[1]) /\ Len(ItemsOfPage(calls[1])) = 2
    /\ IsPage(calls[2]) /\ HasToken(calls[2]) /\ TokenOfPage(calls[2]) = "t2"
    /\ Len(gen["g1"].out) = 3

\* call c failed: the transport failed, the remote rejected it, or the
\* response lacks a key of the path to the item list
FailedCall(c) ==
    \/ c.post.kind = "raise"
    \/ c.post.value.status_code # 200
    \/ ~IsPage(c)

\* the step made a call for g
CallMade(g) == Len(CallsOf(g))' = Len(CallsOf(g)) + 1

LastCall(cs) == cs[Len(cs)]

C14_ErrorAtThePull ==
    \A g \in Gens :
        (CallMade(g) /\ FailedCall(LastCall(CallsOf(g)'))) =>
            /\ gen'[g].pc = "raised"
            /\ gen'[g].exc # NoExc
            /\ gen'[g].out = gen[g].out

C14_DeliveredStays == \A g \in Gens : IsPrefix(gen[g].out, gen'[g].out)

C14_NothingAfterError ==
    \A g \in Gens :
        gen[g].pc = "raised" => (CallsOf(g)' = CallsOf(g) /\ gen'[g] = gen[g])

C14_EachPageOnce ==
    \A g \in Gens :
        LET cs == CallsOf(g)
        IN  /\ \A i, j \in 1..Len(cs) : i < j => SentToken(cs[i]) # SentToken(cs[j])
            /\ \A j \in 1..(Len(cs) - 1) : ~FailedCall(cs[j])

\* C14: when a call made during a search fails, by a rejection of the remote
\* or a key missing on the path to the items, the error leaves the generator
\* in the pull that made the call, the items delivered before stay with the
\* consumer, no call is made for that search afterwards, and over the whole
\* run no page is requested twice.
C14_NoRetry ==
    /\ [][C14_ErrorAtThePull /\ C14_DeliveredStays /\ C14_NothingAfterError]_vars
    /\ []C14_EachPageOnce

\* the second call was rejected after the two items of page 1 were delivered
C14_Witness ==
    /\ gen["g1"].pc = "raised"
    /\ gen["g1"].exc = Exc("RequestError", "denied", "403")
    /\ Len(calls) = 2
    /\ IsPage(calls[1]) /\ Len(ItemsOfPage(calls[1])) = 2
    /\ calls[2].post.kind = "return" /\ calls[2].post.value.status_code = 403
    /\ Len(gen["g1"].out) = 2

C17_EmptyPageStep ==
    \A g \in Gens :
        (/\ CallMade(g)
         /\ IsPage(LastCall(CallsOf(g)'))
         /\ ItemsOfPage(LastCall(CallsOf(g)')) = <<>>
         /\ HasToken(LastCall(CallsOf(g)'))
         /\ TokenOfPage(LastCall(CallsOf(g)')) # "")
        => /\ gen'[g].pc = "fetching"
           /\ MayFetch(gen'[g])
           /\ gen'[g].exc = NoExc
           /\ gen'[g].out = gen[g].out
           /\ gen'[g].next_results_token = TokenOfPage(LastCall(CallsOf(g)'))

C17_NextCallCarriesToken ==
    \A g \in Gens :
        LET cs == CallsOf(g)
        IN  \A j \in 1..(Len(cs) - 1) :
                (IsPage(cs[j]) /\ ItemsOfPage(cs[j]) = <<>>) =>
                    (HasToken(cs[j]) /\ SentToken(cs[j + 1]) = TokenOfPage(cs[j]))

\* C17: a page with a non-empty continuation token and no item makes the
\* engine yield nothing and raise nothing; it stays inside the pull, about
\* to call again, and the next call carries the token of that page.
C17_EmptyPageKeepsGoing ==
    /\ [][C17_EmptyPageStep]_vars
    /\ []C17_NextCallCarriesToken

\* page 1 had no item and the token "t1", and the items of page 2 are the
\* first the consumer got
C17_Witness ==
    /\ Len(calls) = 2
    /\ IsPage(calls[1]) /\ ItemsOfPage(calls[1]) = <<>>
    /\ HasToken(calls[1]) /\ TokenOfPage(calls[1]) = "t1"
    /\ SentToken(calls[2]) = "t1"
    /\ IsPage(calls[2]) /\ Len(ItemsOfPage(calls[2])) = 2
    /\ gen["g1"].out = <<MakeResult(gen["g1"].result_cls, <<2, 1>>)>>

(***************************************************************************)
(* Properties of the request dispatcher (Spec).                            *)
(***************************************************************************)
HasError(body) ==
    /\ "Error" \in DOMAIN body.d
    /\ {"Message", "Code"} \subseteq DOMAIN body.d["Error"].d

FirstMissingErrorKey(body) ==
    IF "Error" \notin DOMAIN body.d THEN "Error"
    ELSE IF "Message" \notin DOMAIN body.d["Error"].d THEN "Message"
    ELSE "Code"

RECURSIVE PathPresent(_, _)
PathPresent(data, keys) ==
    \/ keys = <<>>
    \/ /\ data.t = "dict"
       /\ Head(keys) \in DOMAIN data.d
       /\ PathPresent(data.d[Head(keys)], Tail(keys))

RECURSIVE ValueAt(_, _)
ValueAt(data, keys) ==
    IF keys = <<>> THEN data ELSE ValueAt(data.d[Head(keys)], Tail(keys))

\* the first key of the path that is absent at its level
RECURSIVE FirstAbsent(_, _)
FirstAbsent(data, keys) ==
    IF data.t = "dict" /\ Head(keys) \in DOMAIN data.d
    THEN FirstAbsent(data.d[Head(keys)], Tail(keys))
    ELSE Head(keys)

\* C4: navigation returns the value at the terminal key when every key of
\* the path is present at its level, and otherwise fails with the
\* missing-payload-key error that names the first absent key.
C4_NavigationContract ==
    navOut # Pending =>
        IF PathPresent(navIn.data, navIn.keys)
        THEN navOut = Return(ValueAt(navIn.data, navIn.keys))
        ELSE /\ navOut.kind = "raise"
             /\ navOut.exc.type = "RequestError"
             /\ navOut.exc.msg = MissingKeyMsg(FirstAbsent(navIn.data, navIn.keys))

(***************************************************************************)
(* Properties of the login scan (SpecAuth).                                *)
(***************************************************************************)
FieldNames == {"customerId", "tid", "did", "dtid"}

RegexOf(key) ==
    CASE key = "customer_id" -> CUSTOMER_ID_RE
      [] key = "adp_token" -> ADP_TOKEN_RE
      [] key = "device_id" -> DEVICE_ID_RE
      [] key = "device_type" -> DEVICE_TYPE_RE

\* the login site answered: the scan of the body decides the outcome
SiteAnswered == authIn.open = "ok" /\ authIn.form = "ok" /\ authIn.submit = "ok"

\* no line of the body assigns amznMusic.<name>, however it is spaced
NotNamed(name) ==
    \A i \in DOMAIN authIn.content :
        ~(authIn.content[i].prefix = "amznMusic." /\ authIn.content[i].name = name)

\* the lines of the body that the pattern of key matches
AssignmentsOf(key) ==
    {i \in DOMAIN authIn.content : Matches(RegexOf(key), authIn.content[i])}

\* the credential file is the one the behaviour started with
StoreNotWritten == store \in {NoFile, FileWith(StoredConfig)}

NoUnsetField ==
    /\ customer_id # None
    /\ adp_token # None
    /\ device_id # None
    /\ device_type # None
    /\ cookies # None

\* C5: a body that misses at least one of the four assignments makes
\* authenticate return False, whatever other lines it has, repeated
\* assignments of the fields present included; nothing is written to the
\* credential store and no credentials with an unset field come out.
C5_MissingFieldFails ==
    (authOut # Pending /\ SiteAnswered /\ \E name \in FieldNames : NotNamed(name)) =>
        /\ authOut = Return(FALSE)
        /\ StoreNotWritten
        /\ authenticated => NoUnsetField

\* the scan of the whole body, without the early stop of lines 122-123
RECURSIVE FullScanFrom(_, _, _)
FullScanFrom(st, lines, i) ==
    IF i > Len(lines) THEN st ELSE FullScanFrom(ScanLine(st, lines[i]), lines, i + 1)

FullScan(lines) ==
    FullScanFrom([found |-> 0, auth_vars |-> [k \in AuthVarKeys |-> None]], lines, 1)

\* the text assigned to key by the one line that assigns it
Assigned(key) == authIn.content[CHOOSE i \in AssignmentsOf(key) : TRUE].value

\* the body holds the four assignments, one line each, and unrelated lines
FourAssignments ==
    /\ SiteAnswered
    /\ \A key \in AuthVarKeys : Cardinality(AssignmentsOf(key)) = 1

C7_FailureReturnsFalse ==
    (authOut # Pending /\ (~SiteAnswered \/ Scan(authIn.content).found < 4)) =>
        authOut = Return(FALSE)

(***************************************************************************)
(* Properties of the criteria encoders (SpecEnc).                          *)
(***************************************************************************)
IndexedKey(prefix, i, field) == prefix \o ".member." \o ToString(i) \o "." \o field

SearchFields == {"attributeName", "comparisonType", "attributeValue"}

\* C9: for a list of N criteria and a prefix P the encoder returns exactly
\* the 3*N keys P.member.i.attributeName, P.member.i.comparisonType and
\* P.member.i.attributeValue, i = 1..N, holding the fields of the i-th
\* criterion; a criterion of two fields gets the empty string as value.
C9_SearchCriteriaEncoding ==
    encOut.search # Pending =>
        LET d == encOut.search.value
            N == Len(encIn.search)
            P == encIn.key_prefix
        IN  /\ DOMAIN d = {IndexedKey(P, i, f) : i \in 1..N, f \in SearchFields}
            /\ Cardinality(DOMAIN d) = 3 * N
            /\ \A i \in 1..N :
                  /\ d[IndexedKey(P, i, "attributeName")] = encIn.search[i][1]
                  /\ d[IndexedKey(P, i, "comparisonType")] = encIn.search[i][2]
                  /\ d[IndexedKey(P, i, "attributeValue")] =
                        IF Len(encIn.search[i]) = 2 THEN "" ELSE encIn.search[i][3]

C9_Witness ==
    /\ encOut.search # Pending
    /\ Len(encIn.search) = 3
    /\ encIn.key_prefix = "selectCriteriaList"
    /\ Len(encIn.search[2]) = 2
    /\ Len(encIn.search[3]) = 3
    /\ encOut.search.value["selectCriteriaList.member.2.attributeValue"] = ""

\* C10: for a list of N sort criteria the sort encoder returns exactly the
\* 2*N keys sortColumn and sortType of the indices 1..N, index i holding the
\* column and direction of the i-th element; for a list of K column names,
\* duplicates included, the column encoder returns exactly K keys, index i
\* holding the i-th name.
C10_SortAndColumnEncoding ==
    /\ encOut.sort # Pending =>
          LET d == encOut.sort.value
              N == Len(encIn.sort)
          IN  /\ DOMAIN d = {IndexedKey("sortCriteriaList", i, f) :
                                i \in 1..N, f \in {"sortColumn", "sortType"}}
              /\ Cardinality(DOMAIN d) = 2 * N
              /\ \A i \in 1..N :
                    /\ d[IndexedKey("sortCriteriaList", i, "sortColumn")] = encIn.sort[i][1]
                    /\ d[IndexedKey("sortCriteriaList", i, "sortType")] = encIn.sort[i][2]
    /\ encOut.columns # Pending =>
          LET d == encOut.columns.value
              K == Len(encIn.columns)
          IN  /\ DOMAIN d = {"selectedColumns.member." \o ToString(i) : i \in 1..K}
              /\ Cardinality(DOMAIN d) = K
              /\ \A i \in 1..K :
                    d["selectedColumns.member." \o ToString(i)] = encIn.columns[i]

C10_Witness ==
    /\ encOut.sort # Pending
    /\ encOut.columns # Pending
    /\ Len(encIn.sort) = 2 /\ encIn.sort[1] # encIn.sort[2]
    /\ encIn.columns = <<"title", "title">>
    /\ encOut.sort.value["sortCriteriaList.member.2.sortColumn"] = encIn.sort[2][1]

(***************************************************************************)
(* Properties of the client over its life (SpecSession).                   *)
(***************************************************************************)
\* the credentials call c was sent with
CredentialsOf(c) ==
    <<c.data["customerInfo.customerId"], c.headers["x-adp-token"],
      c.data["customerInfo.deviceId"], c.data["customerInfo.deviceType"],
      c.headers["Cookie"]>>

\* C11: once the instance has loaded a credential set, no operation on it,
\* authenticate included, changes any of the five credential fields, and so
\* every call of one search is sent with the same credentials.
C11_CredentialsImmutable ==
    /\ [][authenticated =>
              UNCHANGED <<customer_id, adp_token, device_id, device_type, cookies>>]_vars
    /\ [](\A g \in Gens :
             \A i, j \in 1..Len(CallsOf(g)) :
                 CredentialsOf(CallsOf(g)[i]) = CredentialsOf(CallsOf(g)[j]))

\* C12: a login attempt that returns False leaves the credential store, the
\* five credential fields and the authenticated flag as they were, and the
\* credential store is written only by a login that returns True.
C12_FailedLoginNoEffect ==
    [][/\ (auth' # auth /\ authOut' = Return(FALSE)) => UNCHANGED <<store, client>>
       /\ (store' # store \/ client' # client) =>
              (authOut' = Return(TRUE) /\ UNCHANGED search)]_vars

\* a login failed on an instance that had loaded the stored credentials and
\* had made a call with them
C12_Witness ==
    /\ authOut = Return(FALSE)
    /\ authIn # Pending /\ authIn.content = ShortBody
    /\ store = FileWith(StoredConfig)
    /\ authenticated /\ customer_id = "C0" /\ cookies = "session-id=0"
    /\ Len(calls) >= 1

RequiredHeaders ==
    {"x-amzn-RequestId", "x-adp-token", "x-RequestedWith", "User-Agent",
     "Referer", "Origin", "Cookie", "Host"}

IdentityKeys ==
    {"customerInfo.customerId", "customerInfo.deviceId", "customerInfo.deviceType"}

OperationOf(c) ==
    CASE c.gen \in Gens -> "searchLibrary"
      [] c.gen = "get_track_list" -> "selectTrackMetadata"
      [] c.gen = "_get" -> "getStreamUrls"

\* call c has the eight headers and the five body keys of the dispatcher, the
\* credentials among them being those of the instance with fields self
CarriesAll(c, self) ==
    /\ DOMAIN c.headers = RequiredHeaders
    /\ Len(c.headers["x-amzn-RequestId"]) > 0
    /\ c.headers["x-adp-token"] = self.adp_token
    /\ c.headers["Cookie"] = self.cookies
    /\ c.headers["x-RequestedWith"] = "XMLHttpRequest"
    /\ c.headers["User-Agent"] = USER_AGENT
    /\ c.headers["Referer"] = REFERER
    /\ c.headers["Origin"] = ORIGIN
    /\ c.headers["Host"] = "www.amazon.com"
    /\ IdentityKeys \cup {"Operation", "ContentType"} \subseteq DOMAIN c.data
    /\ c.data["Operation"] = OperationOf(c)
    /\ c.data["ContentType"] = "JSON"
    /\ c.data["customerInfo.customerId"] = self.customer_id
    /\ c.data["customerInfo.deviceId"] = self.device_id
    /\ c.data["customerInfo.deviceType"] = self.device_type

\* C13: every call the dispatcher sends, for any operation and at any point
\* of the life of the client, has the eight required headers and a body with
\* the operation name, the content-type marker and the three identity
\* fields; adp token, cookie, customer id, device id and device type are the
\* values the instance holds when the call is made, also when the caller's
\* request body names those body keys.
C13_EveryCallCarries ==
    [][calls' # calls =>
          /\ Len(calls') = Len(calls) + 1
          /\ SubSeq(calls', 1, Len(calls)) = calls
          /\ CarriesAll(calls'[Len(calls')], CurrentFields)
          /\ UNCHANGED client]_vars

\* after a login a direct caller passed a body that names the five keys, and
\* a search and get_track_list made their calls too
C13_Witness ==
    /\ Len(calls) = 2
    /\ calls[1].gen = "g1"
    /\ calls[2].gen = "_get"
    /\ "q" \in DOMAIN calls[2].data /\ calls[2].data["q"] = "caller"
    /\ calls[2].data["customerInfo.customerId"] = "A"
    /\ calls[1].data["customerInfo.customerId"] = "C0"
    /\ calls[2].headers["x-adp-token"] = "T"

\* C20: in every reachable state the authenticated flag being true implies
\* that none of the five credential fields is unset.
C20_AuthenticatedHasAllFields == authenticated => NoUnsetField

(***************************************************************************)
(* Properties of two searches on one client (SpecTwo).                     *)
(***************************************************************************)
\* the non-empty tokens the remote has returned to search g
TokensGivenTo(g) ==
    {TokenOfPage(CallsOf(g)[j]) : j \in {i \in 1..Len(CallsOf(g)) :
        IsPage(CallsOf(g)[i]) /\ HasToken(CallsOf(g)[i])}} \ {""}

C15_OwnTokenOnly ==
    \A g \in Gens :
        LET cs == CallsOf(g)
        IN  /\ Len(cs) >= 1 => SentToken(cs[1]) = ""
            /\ \A j \in 2..Len(cs) :
                   /\ SentToken(cs[j]) = TokenOfPage(cs[j - 1])
                   /\ SentToken(cs[j]) # ""
                   /\ \A h \in Gens \ {g} : SentToken(cs[j]) \notin TokensGivenTo(h)

\* what g has yielded is what the pages answered to its own calls hold
C15_ItemsAsAlone ==
    \A g \in Gens :
        LET own == Concatenation(CallsOf(g), gen[g].result_cls)
        IN  /\ IsPrefix(gen[g].out, own)
            /\ gen[g].pc = "done" => gen[g].out = own
            /\ gen[g].pc # "raised"

\* C15: when two searches on one client are pulled in any interleaving,
\* every call of a search carries the empty token (its first call) or the
\* token the previous page of that same search returned, never a token of
\* the other search, and each search yields the items of its own pages in
\* order, as it would alone; a new search starts with the empty token.
C15_TokenPrivate == C15_OwnTokenOnly /\ C15_ItemsAsAlone

\* g1, g2, g1, g2 called in turn, each second call with the search's own token
C15_Witness ==
    /\ Len(calls) = 3
    /\ calls[1].gen = "g1" /\ calls[2].gen = "g2" /\ calls[3].gen = "g1"
    /\ SentToken(calls[2]) = ""
    /\ TokenOfPage(calls[2]) = "t2"
    /\ SentToken(calls[3]) = "t1"
    /\ gen["g2"].pc = "fetching"
    /\ gen["g1"].pc = "done"
    /\ Len(gen["g1"].out) = 2

\* the request body a call of g must have when every shared list holds what
\* the class body and the caller put there
ExpectedData(g, c) ==
    LET a   == SearchArgs(ClassLists, gen[g].outer)
        rec == [GenUnused EXCEPT !.return_type = a.return_type, !.search = a.search,
                                 !.columns = a.columns, !.sort = a.sort,
                                 !.next_results_token = SentToken(c)]
    IN  DictUpdate(SearchData(rec, ClassLists),
                   GetIdentity("searchLibrary", customer_id, device_id, device_type))

\* C19: no sequence of get_songs, get_albums, get_artists and get_track_list
\* calls changes the class-level search lists, the default sort lists, the
\* shared empty default lists or the list the caller passed; so the request
\* body of a search holds the criteria and sort keys of its own arguments,
\* whichever searches ran before it.
C19_SharedListsUntouched ==
    /\ lists = ClassLists
    /\ \A g \in Gens :
          \A j \in 1..Len(CallsOf(g)) : CallsOf(g)[j].data = ExpectedData(g, CallsOf(g)[j])

\* a search with the caller's list ran, then get_track_list, then a search
\* of the same method with default arguments
C19_Witness ==
    /\ Len(calls) = 3
    /\ calls[1].gen = "g1" /\ calls[2].gen = "get_track_list" /\ calls[3].gen = "g2"
    /\ gen["g1"].outer = [method |-> "get_songs", search |-> "caller.search",
                          sort |-> "Client.DEFAULT_SONG_SORT"]
    /\ gen["g2"].outer = [method |-> "get_songs", search |-> "get_songs.search",
                          sort |-> "Client.DEFAULT_SONG_SORT"]
    /\ "searchCriteria.member.4.attributeName" \in DOMAIN calls[1].data
    /\ "searchCriteria.member.4.attributeName" \notin DOMAIN calls[3].data
    /\ calls[3].data["searchCriteria.member.3.attributeValue"] = "AVAILABLE"

(***************************************************************************)
(* Properties of the request identifier (SpecReq).                         *)
(***************************************************************************)
\* the pattern %s%s-%s-dmcp-%s-%s%s%s filled with the segments seg[1..7]
RequestIdOf(seg) ==
    seg[1] \o seg[2] \o <<"-">> \o seg[3] \o <<"-">> \o <<"d", "m", "c", "p">> \o <<"-">>
        \o seg[4] \o <<"-">> \o seg[5] \o seg[6] \o seg[7]

\* n in lowercase hexadecimal, no prefix, no padding
RECURSIVE Hexadecimal(_)
Hexadecimal(n) ==
    (IF n >= 16 THEN Hexadecimal(n \div 16) ELSE <<>>) \o <<HexChars[(n % 16) + 1]>>

\* the four hexadecimal digits of n modulo 65536, padded with zeros
FourDigits(n) ==
    <<HexChars[((n \div 4096) % 16) + 1], HexChars[((n \div 256) % 16) + 1],
      HexChars[((n \div 16) % 16) + 1], HexChars[(n % 16) + 1]>>

\* C16 as stated: the identifier is the pattern filled with seven segments,
\* each the lowercase hexadecimal rendering, without the 0x prefix, of an
\* integer drawn from [65536, 131072).
C16_SegmentsAreTheIntegers ==
    reqOut # Pending =>
        /\ \A i \in 1..7 : reqIn[i] \in 65536..131071
        /\ reqOut = Return(RequestIdOf([i \in 1..7 |-> Hexadecimal(reqIn[i])]))

\* C16 amended: the identifier is the pattern filled with seven segments,
\* each of exactly four lowercase hexadecimal digits: the rendering of the
\* integer drawn with its 0x prefix and its leading digit removed, which
\* is the integer modulo 65536 padded with zeros to four digits.
C16_RequestIdShape ==
    reqOut # Pending =>
        /\ reqOut = Return(RequestIdOf([i \in 1..7 |-> FourDigits(reqIn[i])]))
        /\ Len(reqOut.value) = 36
        /\ \A k \in 1..36 :
              IF k \in {9, 14, 19, 24} THEN reqOut.value[k] = "-"
              ELSE IF k \in 15..18 THEN reqOut.value[k] = <<"d", "m", "c", "p">>[k - 14]
              ELSE \E d \in 1..16 : reqOut.value[k] = HexChars[d]

\* segments of the smallest draw, of a draw in the middle and of the largest
C16_Witness ==
    /\ reqOut # Pending
    /\ reqIn[1] = 65536 /\ reqIn[3] = 74565 /\ reqIn[7] = 131071
    /\ SubSeq(reqOut.value, 1, 4) = <<"0", "0", "0", "0">>
    /\ SubSeq(reqOut.value, 10, 13) = <<"2", "3", "4", "5">>
    /\ SubSeq(reqOut.value, 33, 36) = <<"f", "f", "f", "f">>

(***************************************************************************)
(* Properties of the end of a search (SpecLive).                           *)
(***************************************************************************)
\* the search ended, and only on the word of the remote: the last page it
\* was given has the empty token
EndedByRemote(g) ==
    gen[g].pc = "done" =>
        /\ Len(CallsOf(g)) >= 1
        /\ TokenOfPage(LastCall(CallsOf(g))) = ""
        /\ \A j \in 1..(Len(CallsOf(g)) - 1) : TokenOfPage(CallsOf(g)[j]) # ""

\* against the remote that repeats its token the search has not ended, and
\* every call after the first carried that token
StillGoing(g) ==
    /\ gen[g].pc \notin {"done", "raised"}
    /\ \A j \in 2..Len(CallsOf(g)) : SentToken(CallsOf(g)[j]) = "same"

\* C18: if every call succeeds and the remote answers some page with the
\* empty token, a consumer that keeps pulling reaches the end of the
\* sequence, and the search ends at that page and no earlier; against a
\* remote that returns the same non-empty token on every page the engine
\* never ends the search: it goes on calling for as long as the consumer
\* pulls, up to the number of calls the model allows.
C18_TerminationByRemote ==
    /\ (remote = "ends") => <>(gen["g1"].pc = "done")
    /\ []EndedByRemote("g1")
    /\ [](remote = "loops" => StillGoing("g1"))
    /\ (remote = "loops") => <>(Len(calls) = MaxCalls /\ StillGoing("g1"))

\* the remote ended the sequence at its third page
C18_Witness ==
    /\ remote = "ends"
    /\ gen["g1"].pc = "done"
    /\ Len(calls) = 3
    /\ TokenOfPage(calls[1]) = "t1" /\ TokenOfPage(calls[2]) = "t2"
    /\ TokenOfPage(calls[3]) = ""
    /\ Len(gen["g1"].out) = 3

====
